---- MODULE Spec2Model ----
(***************************************************************************)
(* Model of the SIM information tracker of src/src/sim-info.c.             *)
(*                                                                         *)
(* The C helpers are translated as operators from tracker to tracker, in   *)
(* the order the code calls them; an action is one top-level handler       *)
(* (a watch callback) run to completion, flush included.                   *)
(***************************************************************************)
EXTENDS Integers, Sequences, FiniteSets, TLC

(***************************************************************************)
(* Strings.  A char* is a TLA+ string; the null pointer is the value NULL, *)
(* which is the spelling of no ICCID, IMSI, SPN or operator name of the    *)
(* model.  The empty string "" is a non-null pointer to a terminator.      *)
(***************************************************************************)
NULL == "NULL"

\* g_strcmp0: 0 iff both are NULL or both are equal strings.
g_strcmp0(a, b) == IF a = b THEN 0 ELSE 1

\* p && p[0]
NonEmpty(p) == p # NULL /\ p # ""

(***************************************************************************)
(* Values the environment can deliver.                                     *)
(***************************************************************************)
ICCIDS == {"8901", "8902"}
IMSIS == {"001010000000001", "001010000000002"}
SIM_SPNS == {"RealSPN"}
NET_NAMES == {"MyCarrier"}

WATCH_ICCIDS == {NULL} \cup ICCIDS
WATCH_IMSIS == {NULL, ""} \cup IMSIS
WATCH_SPNS == {NULL, ""} \cup SIM_SPNS

\* watch->sim as a handler finds it: the SIM object (present = non-null),
\* its state and the MCC/MNC its accessors return.  The tracker subscribes
\* to no SIM or SIM-state event, so the SIM changes between two handlers
\* without the tracker being told.
SIMS ==
    { [present |-> FALSE, state |-> "NOT_PRESENT", mcc |-> NULL, mnc |-> NULL],
      [present |-> TRUE, state |-> "INSERTED", mcc |-> NULL, mnc |-> NULL],
      [present |-> TRUE, state |-> "READY", mcc |-> NULL, mnc |-> NULL],
      [present |-> TRUE, state |-> "READY", mcc |-> "001", mnc |-> "01"] }

\* What the attached netreg object reports when a handler reads it.
NETREG_REPORTS ==
    { [status |-> "REGISTERED", mcc |-> "001", mnc |-> "01", name |-> "MyCarrier"],
      [status |-> "ROAMING", mcc |-> "001", mnc |-> "01", name |-> "MyCarrier"],
      [status |-> "SEARCHING", mcc |-> "001", mnc |-> "01", name |-> "MyCarrier"],
      [status |-> "REGISTERED", mcc |-> "001", mnc |-> "02", name |-> "MyCarrier"],
      [status |-> "REGISTERED", mcc |-> "002", mnc |-> "01", name |-> "MyCarrier"],
      [status |-> "REGISTERED", mcc |-> NULL, mnc |-> NULL, name |-> "MyCarrier"],
      [status |-> "REGISTERED", mcc |-> "001", mnc |-> "01", name |-> ""],
      [status |-> "REGISTERED", mcc |-> "001", mnc |-> "01", name |-> NULL] }

\* The SIM and the netreg report of a home network.
HOME_SIM ==
    [present |-> TRUE, state |-> "READY", mcc |-> "001", mnc |-> "01"]
HOME_REPORT ==
    [status |-> "REGISTERED", mcc |-> "001", mnc |-> "01", name |-> "MyCarrier"]

\* What a handler that reads both can find: every SIM under the home
\* report, and every report under the home SIM.
NETREG_CASES ==
    {c \in SIMS \X NETREG_REPORTS : c[1] = HOME_SIM \/ c[2] = HOME_REPORT}

\* watch->netreg: null or the netreg object.
NETREGS == {NULL, "netreg"}

(***************************************************************************)
(* Constants of the code.                                                  *)
(***************************************************************************)
DEFAULT_SPN_BUFSIZE == 8

SIGNAL_ICCID_CHANGED == 0
SIGNAL_IMSI_CHANGED == 1
SIGNAL_SPN_CHANGED == 2
SIGNAL_COUNT == 3

(***************************************************************************)
(* State.                                                                  *)
(***************************************************************************)
VARIABLES
    priv,       \* SimInfoPriv: the tracker's fields
    iccidmap,   \* store "iccidmap", group "imsi": ICCID -> IMSI
    cache,      \* store "cache" of each IMSI, group "sim", key "spn"
    emitted,    \* signals emitted by the last handler, in order
    flushes,    \* store flushes the last handler ran past the dirty-flag
                \* test: value found, value held, and whether it committed
    spn_log,    \* public-SPN recomputations of the last handler that queued
    last        \* the last step: handler and what the watch delivered

vars == <<priv, iccidmap, cache, emitted, flushes, spn_log, last>>

\* The tracker and everything a helper reads or changes, as one value;
\* sv is watch->sim during the handler.
Self(sv) ==
    [priv |-> priv, sim |-> sv, iccidmap |-> iccidmap, cache |-> cache,
     emitted |-> <<>>, flushes |-> <<>>, spn_log |-> <<>>]

(***************************************************************************)
(* Signal queue.                                                           *)
(***************************************************************************)
sim_info_signal_bit(id) == 2 ^ id

\* q & bit
TestBit(q, bit) == (q \div bit) % 2 = 1
\* q | bit
SetBit(q, bit) == IF TestBit(q, bit) THEN q ELSE q + bit
\* q & ~bit
ClearBit(q, bit) == IF TestBit(q, bit) THEN q - bit ELSE q

sim_info_signal_emit(self, id) ==
    [self EXCEPT
        !.priv.queued_signals = ClearBit(@, sim_info_signal_bit(id)),
        !.emitted = Append(@, id)]

\* Variant: the queueing helper also emits at once.
sim_info_signal_queue_emitting(self, id) ==
    [self EXCEPT !.priv.queued_signals = SetBit(@, sim_info_signal_bit(id)),
                 !.emitted = Append(@, id)]

sim_info_signal_queue(self, id) ==
    [self EXCEPT !.priv.queued_signals = SetBit(@, sim_info_signal_bit(id))]

RECURSIVE EmitFrom(_, _)
EmitFrom(self, i) ==
    IF self.priv.queued_signals # 0 /\ i < SIGNAL_COUNT
    THEN EmitFrom(IF TestBit(self.priv.queued_signals, sim_info_signal_bit(i))
                  THEN sim_info_signal_emit(self, i)
                  ELSE self,
                  i + 1)
    ELSE self

\* Variant: the loop starts one kind too late.
sim_info_emit_queued_signals_from_1(self) == EmitFrom(self, 1)

sim_info_emit_queued_signals(self) == EmitFrom(self, 0)

(***************************************************************************)
(* Persistence.                                                            *)
(***************************************************************************)
\* Variant: the flush commits without comparing with the stored value.
sim_info_update_imsi_cache_always(self) ==
    LET p == self.priv IN
    IF p.update_imsi_cache /\ NonEmpty(p.imsi) /\ NonEmpty(p.cached_spn)
    THEN LET spn == self.cache[p.imsi]
         IN  [self EXCEPT
                !.cache = [@ EXCEPT ![p.imsi] = p.cached_spn],
                !.flushes = Append(@, [store |-> "cache", key |-> p.imsi,
                                       old |-> spn, new |-> p.cached_spn,
                                       commit |-> TRUE]),
                !.priv.update_imsi_cache = FALSE]
    ELSE self

\* Variant: a flush that finds the key or the value missing gives up and
\* clears the dirty flag.
sim_info_update_imsi_cache_giving_up(self) ==
    LET p == self.priv IN
    IF p.update_imsi_cache /\ NonEmpty(p.imsi) /\ NonEmpty(p.cached_spn)
    THEN LET spn == self.cache[p.imsi]
             save == g_strcmp0(p.cached_spn, spn) # 0
         IN  [self EXCEPT
                !.cache = IF save THEN [@ EXCEPT ![p.imsi] = p.cached_spn]
                          ELSE @,
                !.flushes = Append(@, [store |-> "cache", key |-> p.imsi,
                                       old |-> spn, new |-> p.cached_spn,
                                       commit |-> save]),
                !.priv.update_imsi_cache = FALSE]
    ELSE [self EXCEPT !.priv.update_imsi_cache = FALSE]

sim_info_update_imsi_cache(self) ==
    LET p == self.priv IN
    IF p.update_imsi_cache /\ NonEmpty(p.imsi) /\ NonEmpty(p.cached_spn)
    THEN LET spn == self.cache[p.imsi]
             save == g_strcmp0(p.cached_spn, spn) # 0
         IN  [self EXCEPT
                !.cache = IF save THEN [@ EXCEPT ![p.imsi] = p.cached_spn]
                          ELSE @,
                !.flushes = Append(@, [store |-> "cache", key |-> p.imsi,
                                       old |-> spn, new |-> p.cached_spn,
                                       commit |-> save]),
                !.priv.update_imsi_cache = FALSE]
    ELSE self

sim_info_update_iccid_map(self) ==
    LET p == self.priv IN
    IF p.update_iccid_map /\ NonEmpty(p.iccid) /\ NonEmpty(p.imsi)
    THEN LET imsi == self.iccidmap[p.iccid]
             save == g_strcmp0(imsi, p.imsi) # 0
         IN  [self EXCEPT
                !.iccidmap = IF save THEN [@ EXCEPT ![p.iccid] = p.imsi]
                             ELSE @,
                !.flushes = Append(@, [store |-> "iccidmap", key |-> p.iccid,
                                       old |-> imsi, new |-> p.imsi,
                                       commit |-> save]),
                !.priv.update_iccid_map = FALSE]
    ELSE self

(***************************************************************************)
(* SPN derivation.                                                         *)
(***************************************************************************)
\* Variant: the precedence leaves out cached_spn.
sim_info_update_public_spn_no_cached(self) ==
    LET p == self.priv
        spn == IF p.sim_spn # NULL THEN p.sim_spn ELSE p.default_spn
    IN  IF g_strcmp0(p.public_spn, spn) # 0
        THEN LET new == IF NonEmpty(spn) THEN spn ELSE NULL
                 s1 == [self EXCEPT
                          !.priv.public_spn = new,
                          !.spn_log = Append(@, [old |-> p.public_spn,
                                                 new |-> new])]
             IN  sim_info_signal_queue(s1, SIGNAL_SPN_CHANGED)
        ELSE self

sim_info_update_public_spn(self) ==
    LET p == self.priv
        spn == IF p.sim_spn # NULL THEN p.sim_spn
               ELSE IF p.cached_spn # NULL THEN p.cached_spn
               ELSE p.default_spn
    IN  IF g_strcmp0(p.public_spn, spn) # 0
        THEN LET new == IF NonEmpty(spn) THEN spn ELSE NULL
                 s1 == [self EXCEPT
                          !.priv.public_spn = new,
                          !.spn_log = Append(@, [old |-> p.public_spn,
                                                 new |-> new])]
             IN  sim_info_signal_queue(s1, SIGNAL_SPN_CHANGED)
        ELSE self

\* Variant: the setter does not compare with the value held.
sim_info_set_cached_spn_unguarded(self, spn) ==
    LET s1 == [self EXCEPT !.priv.cached_spn = spn,
                           !.priv.update_imsi_cache = TRUE]
        s2 == sim_info_update_imsi_cache(s1)
    IN  sim_info_update_public_spn(s2)

sim_info_set_cached_spn(self, spn) ==
    IF g_strcmp0(self.priv.cached_spn, spn) # 0
    THEN LET s1 == [self EXCEPT !.priv.cached_spn = spn,
                                !.priv.update_imsi_cache = TRUE]
             s2 == sim_info_update_imsi_cache(s1)
         IN  sim_info_update_public_spn(s2)
    ELSE self

\* Variant: the SIM's SPN is stored without the cascade into cached_spn.
sim_info_set_spn_no_cascade(self, spn) ==
    IF g_strcmp0(self.priv.sim_spn, spn) # 0
    THEN LET s1 == [self EXCEPT !.priv.sim_spn = spn,
                                !.priv.update_imsi_cache = TRUE]
             s3 == sim_info_update_imsi_cache(s1)
         IN  sim_info_update_public_spn(s3)
    ELSE self

\* Variant: the cascade into cached_spn is skipped when one is held.
sim_info_set_spn_keeping_cached(self, spn) ==
    IF g_strcmp0(self.priv.sim_spn, spn) # 0
    THEN LET s1 == [self EXCEPT !.priv.sim_spn = spn,
                                !.priv.update_imsi_cache = TRUE]
             s2 == IF s1.priv.cached_spn = NULL
                   THEN sim_info_set_cached_spn(s1, spn)
                   ELSE s1
             s3 == sim_info_update_imsi_cache(s2)
         IN  sim_info_update_public_spn(s3)
    ELSE self

sim_info_set_spn(self, spn) ==
    IF g_strcmp0(self.priv.sim_spn, spn) # 0
    THEN LET s1 == [self EXCEPT !.priv.sim_spn = spn,
                                !.priv.update_imsi_cache = TRUE]
             s2 == sim_info_set_cached_spn(s1, spn)
             s3 == sim_info_update_imsi_cache(s2)
         IN  sim_info_update_public_spn(s3)
    ELSE self

\* Variant: an empty SPN from the watch is stored like any other.
sim_info_update_spn_accepting_empty(self, watch_spn) ==
    IF watch_spn # NULL THEN sim_info_set_spn(self, watch_spn) ELSE self

\* watch_spn is watch->spn
sim_info_update_spn(self, watch_spn) ==
    IF NonEmpty(watch_spn) THEN sim_info_set_spn(self, watch_spn) ELSE self

\* snprintf(buf, size, "%s%s", mcc, mnc): at most size - 1 characters
snprintf2(size, mcc, mnc) ==
    LET str == mcc \o mnc
    IN  IF Len(str) > size - 1 THEN SubSeq(str, 1, size - 1) ELSE str

SimReady(s) == s.present /\ s.state = "READY"

\* Variant: the MCC and MNC are used whatever the state of the SIM.
sim_info_update_default_spn_any_state(self) ==
    LET mcc == IF self.sim.present THEN self.sim.mcc ELSE NULL
        mnc == IF self.sim.present THEN self.sim.mnc ELSE NULL
        buf == IF mcc # NULL /\ mnc # NULL
               THEN snprintf2(DEFAULT_SPN_BUFSIZE, mcc, mnc)
               ELSE ""
    IN  IF buf # self.priv.default_spn
        THEN sim_info_update_public_spn(
                [self EXCEPT !.priv.default_spn = buf])
        ELSE self

sim_info_update_default_spn(self) ==
    LET ready == SimReady(self.sim)
        mcc == IF ready THEN self.sim.mcc ELSE NULL
        mnc == IF ready THEN self.sim.mnc ELSE NULL
        buf == IF mcc # NULL /\ mnc # NULL
               THEN snprintf2(DEFAULT_SPN_BUFSIZE, mcc, mnc)
               ELSE ""
    IN  IF buf # self.priv.default_spn
        THEN sim_info_update_public_spn(
                [self EXCEPT !.priv.default_spn = buf])
        ELSE self

(***************************************************************************)
(* Identity tracking.                                                      *)
(***************************************************************************)
\* Variant: an absent or empty upstream IMSI is adopted like any other.
sim_info_update_imsi_unchecked(self, watch_imsi) ==
    LET s4 == IF g_strcmp0(self.priv.imsi, watch_imsi) # 0
              THEN LET s1 == [self EXCEPT !.priv.imsi = watch_imsi,
                                          !.priv.update_iccid_map = TRUE]
                       s2 == sim_info_update_iccid_map(s1)
                       s3 == sim_info_update_imsi_cache(s2)
                   IN  sim_info_signal_queue(s3, SIGNAL_IMSI_CHANGED)
              ELSE self
    IN  sim_info_update_default_spn(s4)

\* Variant: the default SPN is re-derived only when the IMSI has changed.
sim_info_update_imsi_lazy_default(self, watch_imsi) ==
    IF NonEmpty(watch_imsi) /\ g_strcmp0(self.priv.imsi, watch_imsi) # 0
    THEN LET s1 == [self EXCEPT !.priv.imsi = watch_imsi,
                                !.priv.update_iccid_map = TRUE]
             s2 == sim_info_update_iccid_map(s1)
             s3 == sim_info_update_imsi_cache(s2)
             s4 == sim_info_signal_queue(s3, SIGNAL_IMSI_CHANGED)
         IN  sim_info_update_default_spn(s4)
    ELSE self

\* watch_imsi is watch->imsi
sim_info_update_imsi(self, watch_imsi) ==
    LET s4 == IF NonEmpty(watch_imsi)
                 /\ g_strcmp0(self.priv.imsi, watch_imsi) # 0
              THEN LET s1 == [self EXCEPT !.priv.imsi = watch_imsi,
                                          !.priv.update_iccid_map = TRUE]
                       s2 == sim_info_update_iccid_map(s1)
                       s3 == sim_info_update_imsi_cache(s2)
                   IN  sim_info_signal_queue(s3, SIGNAL_IMSI_CHANGED)
              ELSE self
    IN  sim_info_update_default_spn(s4)

\* Variant: hydration flushes the map also when it found no entry or the
\* entry of the tracked IMSI.
sim_info_load_cache_flushing(self) ==
    LET part1 ==
          IF NonEmpty(self.priv.iccid)
          THEN LET imsi == self.iccidmap[self.priv.iccid] IN
               IF NonEmpty(imsi) /\ g_strcmp0(self.priv.imsi, imsi) # 0
               THEN LET s0 == IF NonEmpty(self.priv.imsi)
                              THEN [self EXCEPT !.priv.update_imsi_cache = TRUE]
                              ELSE self
                        s1 == [s0 EXCEPT !.priv.imsi = imsi]
                        s2 == sim_info_update_iccid_map(s1)
                        s3 == sim_info_update_default_spn(s2)
                    IN  sim_info_signal_queue(s3, SIGNAL_IMSI_CHANGED)
               ELSE sim_info_update_iccid_map(self)
          ELSE self
    IN  IF NonEmpty(part1.priv.imsi)
        THEN LET spn == part1.cache[part1.priv.imsi] IN
             IF NonEmpty(spn) /\ g_strcmp0(part1.priv.cached_spn, spn) # 0
             THEN LET s0 == IF NonEmpty(part1.priv.cached_spn)
                            THEN [part1 EXCEPT !.priv.update_imsi_cache = TRUE]
                            ELSE part1
                      s1 == [s0 EXCEPT !.priv.cached_spn = spn]
                      s2 == sim_info_update_imsi_cache(s1)
                  IN  sim_info_update_public_spn(s2)
             ELSE part1
        ELSE part1

sim_info_load_cache(self) ==
    LET part1 ==
          IF NonEmpty(self.priv.iccid)
          THEN LET imsi == self.iccidmap[self.priv.iccid] IN
               IF NonEmpty(imsi) /\ g_strcmp0(self.priv.imsi, imsi) # 0
               THEN LET s0 == IF NonEmpty(self.priv.imsi)
                              THEN [self EXCEPT !.priv.update_imsi_cache = TRUE]
                              ELSE self
                        s1 == [s0 EXCEPT !.priv.imsi = imsi]
                        s2 == sim_info_update_iccid_map(s1)
                        s3 == sim_info_update_default_spn(s2)
                    IN  sim_info_signal_queue(s3, SIGNAL_IMSI_CHANGED)
               ELSE self
          ELSE self
    IN  IF NonEmpty(part1.priv.imsi)
        THEN LET spn == part1.cache[part1.priv.imsi] IN
             IF NonEmpty(spn) /\ g_strcmp0(part1.priv.cached_spn, spn) # 0
             THEN LET s0 == IF NonEmpty(part1.priv.cached_spn)
                            THEN [part1 EXCEPT !.priv.update_imsi_cache = TRUE]
                            ELSE part1
                      s1 == [s0 EXCEPT !.priv.cached_spn = spn]
                      s2 == sim_info_update_imsi_cache(s1)
                  IN  sim_info_update_public_spn(s2)
             ELSE part1
        ELSE part1

\* Variant: the removal of the ICCID leaves cached_spn in place.
sim_info_set_iccid_keeps_cached(self, iccid) ==
    IF g_strcmp0(self.priv.iccid, iccid) # 0
    THEN LET s1 == sim_info_signal_queue(
                      [self EXCEPT !.priv.iccid = iccid],
                      SIGNAL_ICCID_CHANGED)
         IN  IF iccid # NULL
             THEN sim_info_load_cache(s1)
             ELSE LET s2 == IF s1.priv.imsi # NULL
                            THEN sim_info_signal_queue(
                                    [s1 EXCEPT !.priv.imsi = NULL],
                                    SIGNAL_IMSI_CHANGED)
                            ELSE s1
                      s3 == [s2 EXCEPT !.priv.sim_spn = NULL,
                                       !.priv.default_spn = ""]
                  IN  sim_info_update_public_spn(s3)
    ELSE self

sim_info_set_iccid(self, iccid) ==
    IF g_strcmp0(self.priv.iccid, iccid) # 0
    THEN LET s1 == sim_info_signal_queue(
                      [self EXCEPT !.priv.iccid = iccid],
                      SIGNAL_ICCID_CHANGED)
         IN  IF iccid # NULL
             THEN sim_info_load_cache(s1)
             ELSE LET s2 == IF s1.priv.imsi # NULL
                            THEN sim_info_signal_queue(
                                    [s1 EXCEPT !.priv.imsi = NULL],
                                    SIGNAL_IMSI_CHANGED)
                            ELSE s1
                      s3 == [s2 EXCEPT !.priv.sim_spn = NULL,
                                       !.priv.cached_spn = NULL,
                                       !.priv.default_spn = ""]
                  IN  sim_info_update_public_spn(s3)
    ELSE self

(***************************************************************************)
(* Home-network inference.                                                 *)
(***************************************************************************)
\* The accessors of the netreg object; report is what the object holds.
\* Without a netreg object there is no status and no operator.
ofono_netreg_get_status(netreg, report) ==
    IF netreg = NULL THEN "NONE" ELSE report.status
ofono_netreg_get_mcc(netreg, report) ==
    IF netreg = NULL THEN NULL ELSE report.mcc
ofono_netreg_get_mnc(netreg, report) ==
    IF netreg = NULL THEN NULL ELSE report.mnc
ofono_netreg_get_name(netreg, report) ==
    IF netreg = NULL THEN NULL ELSE report.name

\* Variant: the operator name is adopted over an SPN of the SIM.
sim_info_network_check_overriding(self, report) ==
    LET p == self.priv
        reg_status == ofono_netreg_get_status(p.netreg, report)
    IN  IF SimReady(self.sim)
           /\ (reg_status = "REGISTERED" \/ reg_status = "ROAMING")
        THEN LET sim_mcc == self.sim.mcc
                 sim_mnc == self.sim.mnc
                 net_mcc == ofono_netreg_get_mcc(p.netreg, report)
                 net_mnc == ofono_netreg_get_mnc(p.netreg, report)
                 name == ofono_netreg_get_name(p.netreg, report)
             IN  IF NonEmpty(sim_mcc) /\ NonEmpty(sim_mnc)
                    /\ NonEmpty(net_mcc) /\ NonEmpty(net_mnc)
                    /\ NonEmpty(name)
                    /\ sim_mcc = net_mcc /\ sim_mnc = net_mnc
                 THEN sim_info_set_cached_spn(self, name)
                 ELSE self
        ELSE self

sim_info_network_check(self, report) ==
    LET p == self.priv
        reg_status == ofono_netreg_get_status(p.netreg, report)
    IN  IF SimReady(self.sim)
           /\ (reg_status = "REGISTERED" \/ reg_status = "ROAMING")
        THEN LET sim_mcc == self.sim.mcc
                 sim_mnc == self.sim.mnc
                 net_mcc == ofono_netreg_get_mcc(p.netreg, report)
                 net_mnc == ofono_netreg_get_mnc(p.netreg, report)
                 name == ofono_netreg_get_name(p.netreg, report)
             IN  IF NonEmpty(sim_mcc) /\ NonEmpty(sim_mnc)
                    /\ NonEmpty(net_mcc) /\ NonEmpty(net_mnc)
                    /\ NonEmpty(name)
                    /\ sim_mcc = net_mcc /\ sim_mnc = net_mnc
                 THEN IF p.sim_spn = NULL
                      THEN sim_info_set_cached_spn(self, name)
                      ELSE self
                 ELSE self
        ELSE self

sim_info_set_netreg(self, netreg, report) ==
    IF self.priv.netreg # netreg
    THEN IF netreg # NULL
         THEN sim_info_network_check(
                 [self EXCEPT !.priv.netreg = netreg], report)
         ELSE [self EXCEPT !.priv.netreg = NULL]
    ELSE self

(***************************************************************************)
(* Top-level handlers: the helper, then the flush.                         *)
(***************************************************************************)
sim_info_iccid_watch_cb(self, watch_iccid) ==
    sim_info_emit_queued_signals(sim_info_set_iccid(self, watch_iccid))

sim_info_imsi_watch_cb(self, watch_imsi) ==
    sim_info_emit_queued_signals(sim_info_update_imsi(self, watch_imsi))

sim_info_spn_watch_cb(self, watch_spn) ==
    sim_info_emit_queued_signals(sim_info_update_spn(self, watch_spn))

sim_info_netreg_watch(self, report) ==
    sim_info_emit_queued_signals(sim_info_network_check(self, report))

sim_info_netreg_changed(self, watch_netreg, report) ==
    sim_info_emit_queued_signals(
        sim_info_set_netreg(self, watch_netreg, report))

(***************************************************************************)
(* Construction.                                                           *)
(***************************************************************************)
\* g_object_new zero-fills the private data.
sim_info_init ==
    [iccid |-> NULL, imsi |-> NULL, cached_spn |-> NULL, sim_spn |-> NULL,
     public_spn |-> NULL, default_spn |-> "", netreg |-> NULL,
     update_imsi_cache |-> FALSE, update_iccid_map |-> FALSE,
     queued_signals |-> 0]

\* Variant: the constructor flushes the queued signals.
sim_info_new_flushing(self, watch_iccid, watch_netreg, report, watch_imsi, watch_spn) ==
    LET s1 == sim_info_set_iccid(self, watch_iccid)
        s2 == sim_info_set_netreg(s1, watch_netreg, report)
        s3 == sim_info_update_imsi(s2, watch_imsi)
        s4 == sim_info_update_spn(s3, watch_spn)
        s5 == sim_info_network_check(s4, report)
    IN  sim_info_emit_queued_signals(s5)

sim_info_new(self, watch_iccid, watch_netreg, report, watch_imsi, watch_spn) ==
    LET s1 == sim_info_set_iccid(self, watch_iccid)
        s2 == sim_info_set_netreg(s1, watch_netreg, report)
        s3 == sim_info_update_imsi(s2, watch_imsi)
        s4 == sim_info_update_spn(s3, watch_spn)
        s5 == sim_info_network_check(s4, report)
    IN  [s5 EXCEPT !.priv.queued_signals = 0]

(***************************************************************************)
(* The state machine.                                                      *)
(***************************************************************************)
\* All home-network conditions that do not depend on the tracker: SIM
\* ready, registered or roaming, known and equal MCC/MNC, operator name.
HomeNetwork(s, report) ==
    /\ s.present /\ s.state = "READY"
    /\ report.status \in {"REGISTERED", "ROAMING"}
    /\ s.mcc \notin {NULL, ""} /\ s.mnc \notin {NULL, ""}
    /\ report.mcc = s.mcc /\ report.mnc = s.mnc
    /\ report.name \notin {NULL, ""}

\* The operator name the netreg reports for the SIM's home network, NULL
\* when the SIM and the report do not make a home network.
HomeName(s, report) ==
    IF HomeNetwork(s, report) THEN report.name ELSE NULL

\* What is read through a null netreg.
NoReport == [status |-> "NONE", mcc |-> NULL, mnc |-> NULL, name |-> NULL]

\* The contents the stores can have when the tracker is created.
INIT_MAPS == [ICCIDS -> {NULL} \cup IMSIS]
INIT_CACHES == [IMSIS -> {NULL} \cup NET_NAMES]

Commit(s, l) ==
    /\ priv' = s.priv
    /\ iccidmap' = s.iccidmap
    /\ cache' = s.cache
    /\ emitted' = s.emitted
    /\ flushes' = s.flushes
    /\ spn_log' = s.spn_log
    /\ last' = l

Init ==
    \E wi \in WATCH_ICCIDS, wm \in WATCH_IMSIS, ws \in WATCH_SPNS,
       wn \in NETREGS, c \in NETREG_CASES,
       m0 \in INIT_MAPS, c0 \in INIT_CACHES :
        LET s == sim_info_new(
                    [priv |-> sim_info_init, sim |-> c[1], iccidmap |-> m0,
                     cache |-> c0, emitted |-> <<>>, flushes |-> <<>>,
                     spn_log |-> <<>>],
                    wi, wn, c[2], wm, ws)
        IN  /\ priv = s.priv
            /\ iccidmap = s.iccidmap
            /\ cache = s.cache
            /\ emitted = s.emitted
            /\ flushes = s.flushes
            /\ spn_log = s.spn_log
            /\ last = [ev |-> "new", arg |-> wi]

\* The watch calls a handler when the value it watches has changed.  The
\* tracker's iccid and netreg are copies of watch->iccid and watch->netreg
\* (taken at construction and at every callback), so a change of the
\* watch's value is a value that differs from the tracker's.  The tracker
\* keeps no copy of watch->imsi and watch->spn (it ignores the empty
\* ones): their handlers take any value, which adds to the runs of a
\* de-duplicating watch only steps that change nothing.
ofono_watch_iccid_changed(v) == v # priv.iccid
ofono_watch_netreg_changed(n) == n # priv.netreg

IccidWatchCb ==
    \E v \in WATCH_ICCIDS, sv \in SIMS :
        /\ ofono_watch_iccid_changed(v)
        /\ Commit(sim_info_iccid_watch_cb(Self(sv), v),
                  [ev |-> "iccid", arg |-> v])

ImsiWatchCb ==
    \E v \in WATCH_IMSIS, sv \in SIMS :
        Commit(sim_info_imsi_watch_cb(Self(sv), v),
               [ev |-> "imsi", arg |-> v])

\* The SPN helpers do not read the SIM object.
SpnWatchCb ==
    \E v \in WATCH_SPNS :
        Commit(sim_info_spn_watch_cb(Self(HOME_SIM), v),
               [ev |-> "spn", arg |-> v])

\* The status watch is registered with the netreg while it is attached.
NetregWatch ==
    /\ priv.netreg # NULL
    /\ \E c \in NETREG_CASES :
        Commit(sim_info_netreg_watch(Self(c[1]), c[2]),
               [ev |-> "netreg_status", arg |-> HomeName(c[1], c[2])])

\* watch->netreg becomes the netreg object, which reports c[2], or null.
NetregChanged ==
    \/ /\ ofono_watch_netreg_changed("netreg")
       /\ \E c \in NETREG_CASES :
            Commit(sim_info_netreg_changed(Self(c[1]), "netreg", c[2]),
                   [ev |-> "netreg_attached", arg |-> HomeName(c[1], c[2])])
    \/ /\ ofono_watch_netreg_changed(NULL)
       /\ Commit(sim_info_netreg_changed(Self(HOME_SIM), NULL, NoReport),
                 [ev |-> "netreg_detached", arg |-> NULL])

Next ==
    \/ IccidWatchCb
    \/ ImsiWatchCb
    \/ SpnWatchCb
    \/ NetregWatch
    \/ NetregChanged

Spec == Init /\ [][Next]_vars

(***************************************************************************)
(* Properties.                                                             *)
(***************************************************************************)
\* A value that is known: neither absent nor the empty string.
Present(x) == x \notin {NULL, ""}

FirstPresent(a, b, c) ==
    IF Present(a) THEN a
    ELSE IF Present(b) THEN b
    ELSE IF Present(c) THEN c
    ELSE NULL

Count(seq, x) == Cardinality({i \in DOMAIN seq : seq[i] = x})

SIGNALS == 0 .. SIGNAL_COUNT - 1

\* C1: after construction and after every top-level handler, public_spn
\* is the first non-empty value among sim_spn, cached_spn and default_spn,
\* in that order, and absent when none of them is non-empty.
C1_PublicSpnPrecedence ==
    priv.public_spn =
        FirstPresent(priv.sim_spn, priv.cached_spn, priv.default_spn)

\* A handler has left all three sources known, the first two different.
C1_Witness ==
    /\ last.ev # "new"
    /\ Present(priv.sim_spn) /\ Present(priv.cached_spn)
    /\ Present(priv.default_spn)
    /\ priv.sim_spn # priv.cached_spn
    /\ priv.public_spn = priv.sim_spn

\* The helpers a handler runs before its flush emit nothing themselves.
HelpersOnlyQueue ==
    /\ \A v \in WATCH_ICCIDS, sv \in SIMS :
          sim_info_set_iccid(Self(sv), v).emitted = <<>>
    /\ \A v \in WATCH_IMSIS, sv \in SIMS :
          sim_info_update_imsi(Self(sv), v).emitted = <<>>
    /\ \A v \in WATCH_SPNS :
          sim_info_update_spn(Self(HOME_SIM), v).emitted = <<>>
    /\ \A c \in NETREG_CASES :
          /\ sim_info_network_check(Self(c[1]), c[2]).emitted = <<>>
          /\ sim_info_set_netreg(Self(c[1]), "netreg", c[2]).emitted = <<>>

\* C2: a handler emits each kind of notification at most once, however
\* many times its helpers queued the kind; the helpers only queue.
C2_EmittedAtMostOnce ==
    /\ \A id \in SIGNALS : Count(emitted, id) <= 1
    /\ HelpersOnlyQueue

\* SPN-changed was queued by two recomputations of one handler and
\* emitted once.
C2_Witness ==
    /\ Len(spn_log) >= 2
    /\ Count(emitted, SIGNAL_SPN_CHANGED) = 1

Ascending(seq) ==
    \A i, j \in DOMAIN seq : i < j => seq[i] < seq[j]

\* C3: every handler ends with the flush, which emits the pending kinds in
\* the order ICCID, IMSI, SPN and leaves queued_signals empty; removing a
\* SIM that had an IMSI and an SPN emits exactly the three, in that order.
C3_FlushOrder ==
    [][/\ priv'.queued_signals = 0
       /\ Ascending(emitted')
       /\ (/\ last'.ev = "iccid" /\ last'.arg = NULL
           /\ Present(priv.iccid) /\ Present(priv.imsi)
           /\ Present(priv.public_spn)
           => emitted' = <<SIGNAL_ICCID_CHANGED, SIGNAL_IMSI_CHANGED,
                           SIGNAL_SPN_CHANGED>>)]_vars

\* A SIM removal that cleared an IMSI and a public SPN has emitted the
\* three notifications.
C3_Witness ==
    /\ last.ev = "iccid" /\ last.arg = NULL
    /\ priv.queued_signals = 0
    /\ Len(spn_log) = 1 /\ Present(spn_log[1].old)
    /\ emitted = <<SIGNAL_ICCID_CHANGED, SIGNAL_IMSI_CHANGED,
                   SIGNAL_SPN_CHANGED>>

\* C4: the recomputation of the public SPN queues SPN-changed only when
\* the derived value, empty normalised to absent, differs from the
\* public_spn it replaces (spn_log holds the recomputations that queued).
C4_QueuedOnlyOnChange ==
    \A i \in DOMAIN spn_log : spn_log[i].new # spn_log[i].old

\* C5: no store is committed when the value persisted under the key
\* equals the value held in memory.
C5_WriteMinimization ==
    \A i \in DOMAIN flushes :
        flushes[i].commit => flushes[i].old # flushes[i].new

\* A flush found the held value already persisted and committed nothing.
C5_Witness ==
    \E i \in DOMAIN flushes :
        /\ last.ev # "new"
        /\ ~flushes[i].commit
        /\ flushes[i].old = flushes[i].new
        /\ Present(flushes[i].new)

Cleared ==
    /\ priv.imsi = NULL
    /\ priv.sim_spn = NULL
    /\ priv.cached_spn = NULL
    /\ priv.default_spn = ""
    /\ priv.public_spn = NULL

NetregEvents == {"netreg_status", "netreg_attached", "netreg_detached"}

\* C7: imsi goes from present to absent only in the step in which iccid
\* becomes absent; an IMSI event with an absent or empty upstream IMSI
\* leaves imsi alone and emits no IMSI-changed; no IMSI, SPN or netreg
\* event changes iccid.
C7_ImsiSticky ==
    [][/\ (Present(priv.imsi) /\ ~Present(priv'.imsi)
           => /\ last'.ev = "iccid"
              /\ priv.iccid # NULL /\ priv'.iccid = NULL)
       /\ (last'.ev = "imsi" /\ last'.arg \in {NULL, ""}
           => /\ priv'.imsi = priv.imsi
              /\ \A i \in DOMAIN emitted' :
                    emitted'[i] # SIGNAL_IMSI_CHANGED)
       /\ (last'.ev \in {"imsi", "spn"} \cup NetregEvents
           => priv'.iccid = priv.iccid)]_vars

\* An IMSI event has delivered an empty IMSI while an IMSI was tracked.
C7_Witness ==
    /\ last.ev = "imsi" /\ last.arg = ""
    /\ Present(priv.imsi) /\ Present(priv.iccid)

\* C8: set_iccid, set_spn and set_cached_spn called with the value the
\* tracker holds change no field, no dirty flag, no queued signal and no
\* store, and run no flush.
C8_SettersIdempotent ==
    /\ \A sv \in SIMS :
          sim_info_set_iccid(Self(sv), priv.iccid) = Self(sv)
    /\ priv.sim_spn # NULL
          => sim_info_set_spn(Self(HOME_SIM), priv.sim_spn) = Self(HOME_SIM)
    /\ priv.cached_spn # NULL
          => sim_info_set_cached_spn(Self(HOME_SIM), priv.cached_spn)
                = Self(HOME_SIM)

\* The status watch has called set_cached_spn with the operator name the
\* tracker already held as cached_spn: nothing was emitted.
C8_Witness ==
    /\ last.ev = "netreg_status" /\ Present(last.arg)
    /\ priv.sim_spn = NULL /\ priv.cached_spn = last.arg
    /\ emitted = <<>> /\ flushes = <<>>

\* C9: a netreg event adopts the operator name into cached_spn exactly
\* when it runs the check (the status watch, the attachment of a netreg)
\* and the SIM is ready, the status registered or roaming, the SIM's
\* MCC/MNC known and equal to the network's, the operator name non-empty
\* (last.arg is then that name) and sim_spn absent; in every other case
\* the netreg event leaves cached_spn and public_spn alone; while sim_spn
\* is set no netreg event moves public_spn away from it.
C9_HomeNetworkInference ==
    [][last'.ev \in NetregEvents
       => LET fires == /\ last'.ev \in {"netreg_status", "netreg_attached"}
                       /\ last'.arg # NULL
                       /\ priv.sim_spn = NULL
          IN  /\ fires => /\ priv'.cached_spn = last'.arg
                          /\ priv'.public_spn = last'.arg
              /\ ~fires => /\ priv'.cached_spn = priv.cached_spn
                           /\ priv'.public_spn = priv.public_spn
              /\ priv.sim_spn # NULL => /\ priv'.sim_spn = priv.sim_spn
                                        /\ priv'.public_spn = priv.sim_spn]_vars

\* The status watch has adopted the operator name and changed the public
\* SPN.
C9_Witness ==
    /\ last.ev = "netreg_status" /\ Present(last.arg)
    /\ priv.sim_spn = NULL
    /\ priv.cached_spn = last.arg /\ priv.public_spn = last.arg
    /\ emitted = <<SIGNAL_SPN_CHANGED>>

\* An ICCID event makes the ICCID present: the tracker held none and the
\* watch delivers one.
IccidInserted ==
    /\ priv.iccid = NULL
    /\ last'.ev = "iccid" /\ Present(last'.arg)

\* C10 as stated: when the ICCID becomes present on a tracker with no
\* IMSI and no SPN, and the map holds an IMSI for it and the cache an SPN
\* for that IMSI, the handler leaves imsi the mapped IMSI and public_spn
\* the stored SPN and emits IMSI-changed and SPN-changed once each; when
\* the map has no entry, imsi stays as it was and only ICCID-changed is
\* emitted.
C10_HydrationAsStated ==
    [][IccidInserted
       => LET imsi == iccidmap[last'.arg] IN
          /\ (/\ Present(imsi) /\ Present(cache[imsi])
              /\ ~Present(priv.imsi) /\ ~Present(priv.public_spn)
              => /\ priv'.imsi = imsi
                 /\ priv'.public_spn = cache[imsi]
                 /\ Count(emitted', SIGNAL_IMSI_CHANGED) = 1
                 /\ Count(emitted', SIGNAL_SPN_CHANGED) = 1)
          /\ (imsi = NULL
              => /\ priv'.imsi = priv.imsi
                 /\ emitted' = <<SIGNAL_ICCID_CHANGED>>)]_vars

\* The commits the last handler made to the store.
Writes(store) ==
    Cardinality({i \in DOMAIN flushes :
                    flushes[i].store = store /\ flushes[i].commit})

\* An SPN event delivers a non-empty SPN that differs from cached_spn
\* while an IMSI is tracked.
SpnReported ==
    /\ last'.ev = "spn" /\ Present(last'.arg)
    /\ last'.arg # priv.cached_spn
    /\ Present(priv.imsi)

\* C11 as stated: after such an SPN event public_spn, sim_spn and
\* cached_spn equal the reported SPN, SPN-changed is emitted exactly once
\* and exactly one write is made to the per-IMSI cache.
C11_SpnAdoptedAsStated ==
    [][SpnReported
       => /\ priv'.public_spn = last'.arg
          /\ priv'.sim_spn = last'.arg
          /\ priv'.cached_spn = last'.arg
          /\ Count(emitted', SIGNAL_SPN_CHANGED) = 1
          /\ Writes("cache")' = 1]_vars

\* C11: when the reported SPN also differs from sim_spn, public_spn,
\* sim_spn and cached_spn equal it after the handler, SPN-changed is
\* emitted exactly once, and the per-IMSI cache is written once when the
\* value persisted for the IMSI differs from the reported SPN and not at
\* all when it equals it; a reported SPN equal to sim_spn changes nothing.
C11_SpnAdopted ==
    [][SpnReported
       => IF last'.arg # priv.sim_spn
          THEN /\ priv'.public_spn = last'.arg
               /\ priv'.sim_spn = last'.arg
               /\ priv'.cached_spn = last'.arg
               /\ Count(emitted', SIGNAL_SPN_CHANGED) = 1
               /\ Writes("cache")' =
                     IF cache[priv.imsi] # last'.arg THEN 1 ELSE 0
               /\ cache'[priv.imsi] = last'.arg
          ELSE /\ priv' = priv /\ cache' = cache
               /\ emitted' = <<>> /\ flushes' = <<>>]_vars

\* The SIM's SPN has replaced another cached_spn: one SPN-changed, one
\* write to the cache of the IMSI.
C11_Witness ==
    /\ last.ev = "spn" /\ Present(last.arg) /\ Present(priv.imsi)
    /\ priv.sim_spn = last.arg /\ priv.cached_spn = last.arg
    /\ Len(spn_log) = 1 /\ Present(spn_log[1].old)
    /\ emitted = <<SIGNAL_SPN_CHANGED>>
    /\ Len(flushes) = 1 /\ flushes[1].commit
    /\ Present(flushes[1].old)

\* A flush whose dirty flag is clear, or whose key or value is missing,
\* changes nothing: it commits nothing and leaves the flag as it was.
FlushGuarded ==
    LET s == Self(HOME_SIM) IN
    /\ ~(/\ priv.update_imsi_cache
         /\ Present(priv.imsi) /\ Present(priv.cached_spn))
          => sim_info_update_imsi_cache(s) = s
    /\ ~(/\ priv.update_iccid_map
         /\ Present(priv.iccid) /\ Present(priv.imsi))
          => sim_info_update_iccid_map(s) = s

\* C12: a store is committed only by a flush that finds its dirty flag set
\* and a non-empty key and value; a flush with the key or value missing
\* leaves the flag set, so a cached_spn adopted while no IMSI is tracked
\* is still marked dirty, and the IMSI event that adopts a non-empty IMSI
\* persists it under that IMSI and leaves the per-IMSI flag clear.
C12_DeferredPersist ==
    [][/\ FlushGuarded
       /\ \A i \in DOMAIN flushes' :
             Present(flushes'[i].key) /\ Present(flushes'[i].new)
       /\ (~Present(priv.imsi) /\ Present(priv.cached_spn)
           => priv.update_imsi_cache)
       /\ (/\ last'.ev = "imsi" /\ Present(last'.arg)
           /\ ~Present(priv.imsi) /\ Present(priv.cached_spn)
           => /\ priv'.imsi = last'.arg
              /\ priv'.cached_spn = priv.cached_spn
              /\ cache'[last'.arg] = priv.cached_spn
              /\ ~priv'.update_imsi_cache)]_vars

\* An IMSI event has adopted an IMSI and written the cached_spn held
\* since before under it.
C12_Witness ==
    /\ last.ev = "imsi" /\ priv.imsi = last.arg
    /\ emitted = <<SIGNAL_IMSI_CHANGED>>
    /\ ~priv.update_imsi_cache
    /\ \E i \in DOMAIN flushes :
          /\ flushes[i].store = "cache" /\ flushes[i].commit
          /\ flushes[i].key = last.arg
          /\ flushes[i].new = priv.cached_spn

\* MCC followed by MNC, cut to the 7 characters the buffer holds, when
\* the SIM is ready and reports both; empty otherwise.
DefaultSpnOf(sv) ==
    IF sv.present /\ sv.state = "READY" /\ sv.mcc # NULL /\ sv.mnc # NULL
    THEN LET str == sv.mcc \o sv.mnc
         IN  IF Len(str) > 7 THEN SubSeq(str, 1, 7) ELSE str
    ELSE ""

\* C13: an IMSI event whose upstream IMSI is non-empty and differs from
\* the tracked one adopts it and emits IMSI-changed exactly once; with an
\* iccid present the map entry of the iccid is the new IMSI when the
\* handler returns and the map flag is clear, with no iccid the map is
\* untouched and stays marked dirty; any other IMSI event leaves imsi
\* alone and emits no IMSI-changed; after every IMSI event default_spn is
\* what the SIM gives at that moment.
C13_ImsiAdoption ==
    \A v \in WATCH_IMSIS, sv \in SIMS :
        LET r == sim_info_imsi_watch_cb(Self(sv), v) IN
        /\ r.priv.default_spn = DefaultSpnOf(sv)
        /\ r.priv.queued_signals = 0
        /\ IF Present(v) /\ v # priv.imsi
           THEN /\ r.priv.imsi = v
                /\ Count(r.emitted, SIGNAL_IMSI_CHANGED) = 1
                /\ IF Present(priv.iccid)
                   THEN /\ r.iccidmap[priv.iccid] = v
                        /\ ~r.priv.update_iccid_map
                   ELSE /\ r.iccidmap = iccidmap
                        /\ r.priv.update_iccid_map
           ELSE /\ r.priv.imsi = priv.imsi
                /\ r.iccidmap = iccidmap
                /\ Count(r.emitted, SIGNAL_IMSI_CHANGED) = 0

\* An IMSI event has adopted an IMSI, written it to the map under the
\* iccid and re-derived the default SPN.
C13_Witness ==
    /\ last.ev = "imsi" /\ priv.imsi = last.arg
    /\ Present(priv.iccid) /\ iccidmap[priv.iccid] = priv.imsi
    /\ Count(emitted, SIGNAL_IMSI_CHANGED) = 1
    /\ Count(emitted, SIGNAL_SPN_CHANGED) = 1
    /\ Present(priv.default_spn)
    /\ Len(flushes) = 1 /\ flushes[1].store = "iccidmap"
    /\ flushes[1].commit /\ Present(flushes[1].old)

\* An ICCID event makes present an ICCID whose mapped IMSI differs from
\* the non-empty IMSI the tracker already holds.
HydrationChangesImsi ==
    /\ last'.ev = "iccid" /\ Present(last'.arg)
    /\ Present(priv.imsi)
    /\ Present(iccidmap[last'.arg]) /\ iccidmap[last'.arg] # priv.imsi

\* C14 as stated: such a hydration adopts the mapped IMSI, emits
\* IMSI-changed once and sets the dirty flag of the ICCID->IMSI map: the
\* flush of the map that follows in the same handler runs past its
\* dirty-flag test, or the flag is still set when the handler returns.
C14_HydrationMarksMap ==
    [][HydrationChangesImsi
       => /\ priv'.imsi = iccidmap[last'.arg]
          /\ Count(emitted', SIGNAL_IMSI_CHANGED) = 1
          /\ \/ priv'.update_iccid_map
             \/ \E i \in DOMAIN flushes' :
                   flushes'[i].store = "iccidmap"]_vars

\* An ICCID or IMSI event adopts an IMSI for which the per-IMSI cache
\* holds an SPN.
ImsiAdopted ==
    /\ last'.ev \in {"iccid", "imsi"}
    /\ Present(priv'.imsi) /\ priv'.imsi # priv.imsi
    /\ Present(cache[priv'.imsi])

\* C15 as stated: whenever an IMSI is adopted, by hydration or from an
\* upstream report, the SPN stored for it is looked up and adopted: when
\* the handler returns cached_spn is the SPN the cache holds for the
\* IMSI, and public_spn follows the precedence.
C15_LookupOnAdoption ==
    [][ImsiAdopted
       => /\ priv'.cached_spn = cache'[priv'.imsi]
          /\ priv'.public_spn =
                FirstPresent(priv'.sim_spn, priv'.cached_spn,
                             priv'.default_spn)]_vars

\* The SIMs update_default_spn is tried on: those of the state machine,
\* one that is not ready but has an MCC and MNC, one with a 3-digit MNC
\* and one whose MCC and MNC overrun the buffer.
DEFAULT_SPN_SIMS ==
    SIMS \cup
    {[present |-> TRUE, state |-> "INSERTED", mcc |-> "001", mnc |-> "01"],
     [present |-> TRUE, state |-> "READY", mcc |-> "001", mnc |-> "010"],
     [present |-> TRUE, state |-> "READY", mcc |-> "0010", mnc |-> "0100"]}

\* C16: after update_default_spn, default_spn is MCC followed by MNC, cut
\* to 7 characters, when the SIM is ready and both are known, and empty
\* otherwise; when that value equals the stored default_spn the helper
\* changes nothing (no recomputation, no SPN-changed queued), and when it
\* differs the helper stores it and recomputes the public SPN.
C16_DefaultSpn ==
    \A sv \in DEFAULT_SPN_SIMS :
        LET s == Self(sv)
            r == sim_info_update_default_spn(s)
        IN  /\ r.priv.default_spn = DefaultSpnOf(sv)
            /\ Len(r.priv.default_spn) <= 7
            /\ IF DefaultSpnOf(sv) = priv.default_spn
               THEN r = s
               ELSE r = sim_info_update_public_spn(
                           [s EXCEPT !.priv.default_spn = DefaultSpnOf(sv)])

\* An IMSI event found the SIM ready with MCC and MNC: the default SPN
\* was derived and became the public SPN.
C16_Witness ==
    /\ last.ev = "imsi"
    /\ priv.default_spn = "00101"
    /\ priv.public_spn = "00101"
    /\ emitted = <<SIGNAL_SPN_CHANGED>>
    /\ spn_log = <<[old |-> NULL, new |-> "00101"]>>

(***************************************************************************)
(* Reentrancy: a subscriber that calls back into the tracker.              *)
(***************************************************************************)
\* The events a handler with a reentrant subscriber, and the subscriber,
\* are given.
REENTRANT_ICCIDS == {"8901"}
REENTRANT_IMSIS == {"001010000000001"}

EVENTS ==
    {[ev |-> "iccid", arg |-> v] : v \in {NULL} \cup REENTRANT_ICCIDS}
    \cup {[ev |-> "imsi", arg |-> v] : v \in REENTRANT_IMSIS}
    \cup {[ev |-> "spn", arg |-> v] : v \in SIM_SPNS}
    \cup {[ev |-> "netreg_status", arg |-> HOME_REPORT.name]}

\* Whether the watch (or the netreg) calls the handler of the event.
WatchFires(self, e) ==
    CASE e.ev = "iccid" -> e.arg # self.priv.iccid
      [] e.ev = "netreg_status" -> self.priv.netreg # NULL
      [] OTHER -> TRUE

\* What the handler of the event does before its flush.
HandlerBody(self, e) ==
    CASE e.ev = "iccid" -> sim_info_set_iccid(self, e.arg)
      [] e.ev = "imsi" -> sim_info_update_imsi(self, e.arg)
      [] e.ev = "spn" -> sim_info_update_spn(self, e.arg)
      [] e.ev = "netreg_status" -> sim_info_network_check(self, HOME_REPORT)

\* The pending kinds of q added to those of r.
QueueBoth(q, r) ==
    LET with0 == IF TestBit(r, sim_info_signal_bit(0))
                 THEN SetBit(q, sim_info_signal_bit(0)) ELSE q
        with1 == IF TestBit(r, sim_info_signal_bit(1))
                 THEN SetBit(with0, sim_info_signal_bit(1)) ELSE with0
    IN  IF TestBit(r, sim_info_signal_bit(2))
        THEN SetBit(with1, sim_info_signal_bit(2)) ELSE with1

\* The callback connected to signal `at`: on the first emission it makes
\* the watch deliver event e, whose handler (body, then flush) runs on
\* the same tracker before g_signal_emit returns.  The helpers only add
\* bits to queued_signals and never read it, so the body is run on an
\* empty queue to see which kinds it queues (recorded in `nested`) and
\* the kinds still pending from the outer handler are added back before
\* the nested flush; `mark` is the number of signals emitted before.
Subscriber(self, at, e) ==
    IF ~self.fired /\ WatchFires(self, e)
    THEN LET b == HandlerBody(
                     [self EXCEPT !.priv.queued_signals = 0,
                                  !.fired = TRUE,
                                  !.mark = Len(self.emitted)], e)
             q == b.priv.queued_signals
         IN  sim_info_emit_queued_signals(
                [b EXCEPT !.nested = q,
                          !.priv.queued_signals =
                              QueueBoth(self.priv.queued_signals, q)])
    ELSE self

\* The iterations i .. n - 1 of the loop of sim_info_emit_queued_signals.
RECURSIVE EmitFromTo(_, _, _)
EmitFromTo(self, i, n) ==
    IF self.priv.queued_signals # 0 /\ i < n
    THEN EmitFromTo(
            IF TestBit(self.priv.queued_signals, sim_info_signal_bit(i))
            THEN sim_info_signal_emit(self, i)
            ELSE self,
            i + 1, n)
    ELSE self

\* Variant: the bit of a signal is cleared after its callbacks have run.
EmitReentrantClearingLate(self, at, e) ==
    LET s1 == EmitFromTo(self, 0, at)
        s2 == IF TestBit(s1.priv.queued_signals, sim_info_signal_bit(at))
              THEN LET cb == Subscriber(
                                [s1 EXCEPT !.emitted = Append(@, at)],
                                at, e)
                   IN  [cb EXCEPT !.priv.queued_signals =
                                      ClearBit(@, sim_info_signal_bit(at))]
              ELSE s1
    IN  EmitFromTo(s2, at + 1, SIGNAL_COUNT)

\* sim_info_emit_queued_signals with the callback connected to signal
\* `at`: the iterations before `at`, the iteration of `at`, in which
\* sim_info_signal_emit clears the bit and g_signal_emit then runs the
\* callback, and the iterations after it, which go on with what
\* queued_signals holds by then.
EmitReentrant(self, at, e) ==
    LET s1 == EmitFromTo(self, 0, at)
        s2 == IF TestBit(s1.priv.queued_signals, sim_info_signal_bit(at))
              THEN Subscriber(sim_info_signal_emit(s1, at), at, e)
              ELSE s1
    IN  EmitFromTo(s2, at + 1, SIGNAL_COUNT)

\* The tracker as a handler with the callback connected sees it.
SelfReentrant ==
    [priv |-> priv, sim |-> HOME_SIM, iccidmap |-> iccidmap,
     cache |-> cache, emitted |-> <<>>, flushes |-> <<>>, spn_log |-> <<>>,
     fired |-> FALSE, nested |-> 0, mark |-> 0]

\* A handler runs with no callback that calls back.
HandleEvent ==
    \E e \in EVENTS :
        /\ WatchFires(Self(HOME_SIM), e)
        /\ Commit(sim_info_emit_queued_signals(
                      HandlerBody(Self(HOME_SIM), e)),
                  [ev |-> e.ev, arg |-> e.arg])

\* A handler runs while the callback connected to signal `at` delivers
\* event n.
HandleReentrant ==
    \E o \in EVENTS, n \in EVENTS, at \in SIGNALS :
        /\ WatchFires(SelfReentrant, o)
        /\ \E b \in {HandlerBody(SelfReentrant, o)} :
           \E s \in {EmitReentrant(b, at, n)} :
              Commit(s, [ev |-> "reentrant", arg |-> o.arg, at |-> at,
                         outer |-> b.priv.queued_signals,
                         fired |-> s.fired, nested |-> s.nested,
                         mark |-> s.mark])

NextReentrant ==
    \/ HandleEvent
    \/ HandleReentrant

\* The tracker is created for a modem with a netreg and a ready SIM; the
\* watch and the stores hold the one ICCID and IMSI of the events, or none.
InitReentrant ==
    \E wi \in {NULL} \cup REENTRANT_ICCIDS, wm \in {NULL} \cup REENTRANT_IMSIS,
       m0 \in [ICCIDS -> {NULL} \cup REENTRANT_IMSIS],
       c0 \in {c \in INIT_CACHES :
                 \A i \in IMSIS \ REENTRANT_IMSIS : c[i] = NULL} :
        LET s == sim_info_new(
                    [priv |-> sim_info_init, sim |-> HOME_SIM,
                     iccidmap |-> m0, cache |-> c0, emitted |-> <<>>,
                     flushes |-> <<>>, spn_log |-> <<>>],
                    wi, "netreg", HOME_REPORT, wm, NULL)
        IN  /\ priv = s.priv
            /\ iccidmap = s.iccidmap
            /\ cache = s.cache
            /\ emitted = s.emitted
            /\ flushes = s.flushes
            /\ spn_log = s.spn_log
            /\ last = [ev |-> "new", arg |-> wi]

SpecReentrant == InitReentrant /\ [][NextReentrant]_vars

\* C17: when a callback run during the flush makes a handler run on the
\* same tracker, queued_signals is empty when the outer handler returns;
\* every kind the outer handler queued is emitted, every kind the nested
\* handler queued is emitted after the nested handler ran, and no kind is
\* emitted more often than it was queued (once by each handler at most).
C17_Reentrancy ==
    last.ev = "reentrant"
    => /\ priv.queued_signals = 0
       /\ \A k \in SIGNALS :
            LET qo == TestBit(last.outer, sim_info_signal_bit(k))
                qn == last.fired
                      /\ TestBit(last.nested, sim_info_signal_bit(k))
            IN  /\ qo => Count(emitted, k) >= 1
                /\ qn => \E i \in DOMAIN emitted :
                            i > last.mark /\ emitted[i] = k
                /\ Count(emitted, k) <=
                      (IF qo THEN 1 ELSE 0) + (IF qn THEN 1 ELSE 0)

\* The callback of ICCID-changed delivered an SPN while the outer
\* handler's SPN-changed was still pending: one SPN-changed came out,
\* after both.
C17_Witness ==
    /\ last.ev = "reentrant" /\ last.fired /\ last.at = SIGNAL_ICCID_CHANGED
    /\ TestBit(last.outer, sim_info_signal_bit(SIGNAL_SPN_CHANGED))
    /\ TestBit(last.nested, sim_info_signal_bit(SIGNAL_SPN_CHANGED))
    /\ Count(emitted, SIGNAL_SPN_CHANGED) = 1
    /\ Count(emitted, SIGNAL_ICCID_CHANGED) = 1

\* C18: construction is silent: whatever the watch and the stores hold,
\* sim_info_new returns with nothing emitted and queued_signals empty,
\* having taken the ICCID from the watch.
C18_SilentConstruction ==
    last.ev = "new"
    => /\ emitted = <<>>
       /\ priv.queued_signals = 0
       /\ priv.iccid = last.arg

\* A tracker was created with an ICCID, an IMSI and a public SPN, which
\* the helpers set and queued signals for, and emitted nothing.
C18_Witness ==
    /\ last.ev = "new"
    /\ Present(priv.iccid) /\ Present(priv.imsi)
    /\ Present(priv.public_spn)
    /\ spn_log # <<>>
    /\ emitted = <<>> /\ priv.queued_signals = 0

C20_MapConsistent ==
    Present(priv.iccid) /\ Present(priv.imsi)
        => iccidmap[priv.iccid] = priv.imsi

\* C21: sim_spn, cached_spn and public_spn are each absent or non-empty,
\* never the empty string, so the value the code derives by testing the
\* pointers for null is the first non-empty one of the three sources.
C21_NeverEmpty ==
    /\ priv.sim_spn # "" /\ priv.cached_spn # "" /\ priv.public_spn # ""
    /\ LET spn == IF priv.sim_spn # NULL THEN priv.sim_spn
                  ELSE IF priv.cached_spn # NULL THEN priv.cached_spn
                  ELSE priv.default_spn
       IN  (IF NonEmpty(spn) THEN spn ELSE NULL) =
              FirstPresent(priv.sim_spn, priv.cached_spn, priv.default_spn)

\* The watch has delivered an empty SPN: sim_spn stayed absent and the
\* public SPN is still the cached one.
C21_Witness ==
    /\ last.ev = "spn" /\ last.arg = ""
    /\ priv.sim_spn = NULL
    /\ Present(priv.cached_spn) /\ priv.public_spn = priv.cached_spn

====
